---- MODULE Spec2Model ----
(***************************************************************************)
(* A model of tmux-manager.py (class TmuxManager) and tmux_utils.py.       *)
(*                                                                         *)
(* Text (tmux output, what the user types) is a sequence of one-character  *)
(* strings, so that split, strip, lower and int are computed as Python     *)
(* computes them.                                                          *)
(***************************************************************************)
EXTENDS Integers, Sequences, FiniteSets, TLC

VARIABLES
    pc,               \* where the program is: a prompt of main_menu or of a handler
    server,           \* the tmux server: session name -> [attached]
    client,           \* what 'display-message -p #S' answers (<<>>: nothing)
    tool,             \* the tmux binary: "ok", "error" (non-zero exit), "missing"
    dirs,             \* what list_project_dirs() returns
    raw,              \* what tmux writes to stdout for list-sessions
    sessions,         \* self.sessions
    current_session,  \* self.current_session (<<>>: None)
    menu,             \* the last choice typed at the main menu
    choice,           \* the last line typed at a handler's first prompt
    indices,          \* interactive_close_session: indices, or the parse's error
    to_close,         \* interactive_close_session: to_close
    confirm,          \* interactive_close_session: the line typed at the confirmation
    cmds,             \* tmux commands issued through subprocess.run in this menu iteration
    msg,              \* the messages printed by the handler, in this menu iteration
    exc,              \* the exception that escaped main_menu ("none": none)
    windows_raw,      \* what tmux writes to stdout for list-windows
    pane_table,       \* the panes of the server: <<window id, list-panes line>>
    windows,          \* the last result of get_windows
    summary           \* the last result of get_session_app_summary

vars == <<pc, server, client, tool, dirs, raw, sessions, current_session, menu,
          choice, indices, to_close, confirm, cmds, msg, exc, windows_raw,
          pane_table, windows, summary>>

-----------------------------------------------------------------------------
(* Bounds of the model. *)

\* The longest selection string typed at the Close prompt, in SpecParse.
MaxLen == 5
\* The most sessions in the inventory, in SpecParse (the fewest: two less).
MaxN == 6
\* The most lines of a list-sessions / list-windows output, in SpecCollect.
MaxLines == 2
\* The most panes of the server, in SpecSummary.
MaxPanes == 2

-----------------------------------------------------------------------------
(* Python's str and int operations, on sequences of characters. *)

NL == "\n"
Whitespace == {" ", NL}

RECURSIVE LStrip(_)
LStrip(s) ==
    IF s # <<>> /\ Head(s) \in Whitespace THEN LStrip(Tail(s)) ELSE s

RECURSIVE RStrip(_)
RStrip(s) ==
    IF s # <<>> /\ s[Len(s)] \in Whitespace
    THEN RStrip(SubSeq(s, 1, Len(s) - 1))
    ELSE s

\* str.strip()
Strip(s) == RStrip(LStrip(s))

LowerChar(c) ==
    CASE c = "Y" -> "y"
      [] c = "E" -> "e"
      [] c = "S" -> "s"
      [] c = "Q" -> "q"
      [] c = "N" -> "n"
      [] c = "O" -> "o"
      [] OTHER -> c

\* str.lower()
Lower(s) == [i \in 1..Len(s) |-> LowerChar(s[i])]

Contains(s, c) == \E i \in 1..Len(s) : s[i] = c

RECURSIVE SplitAcc(_, _, _, _)
SplitAcc(s, sep, max, cur) ==
    IF s = <<>> THEN <<cur>>
    ELSE IF Head(s) = sep /\ max # 0
         THEN <<cur>> \o SplitAcc(Tail(s), sep, max - 1, <<>>)
         ELSE SplitAcc(Tail(s), sep, max, Append(cur, Head(s)))

\* str.split(sep, maxsplit): maxsplit -1 is no limit
SplitMax(s, sep, max) == SplitAcc(s, sep, max, <<>>)

\* str.split(sep)
Split(s, sep) == SplitMax(s, sep, -1)

DigitChars == {"0", "1", "2", "3", "4", "5", "6", "7", "8", "9"}

DigitVal(c) ==
    CASE c = "0" -> 0 [] c = "1" -> 1 [] c = "2" -> 2 [] c = "3" -> 3
      [] c = "4" -> 4 [] c = "5" -> 5 [] c = "6" -> 6 [] c = "7" -> 7
      [] c = "8" -> 8 [] c = "9" -> 9

\* str.isdigit()
IsDigitStr(s) == s # <<>> /\ \A i \in 1..Len(s) : s[i] \in DigitChars

RECURSIVE DigitsVal(_, _)
DigitsVal(s, acc) ==
    IF s = <<>> THEN acc ELSE DigitsVal(Tail(s), acc * 10 + DigitVal(Head(s)))

Unsigned(s) ==
    LET t == Strip(s)
    IN  IF t # <<>> /\ Head(t) \in {"+", "-"} THEN Tail(t) ELSE t

\* int(s) returns (it raises ValueError otherwise): surrounding whitespace, an
\* optional sign, decimal digits
IsInt(s) == IsDigitStr(Unsigned(s))

\* int(s), where it returns
IntVal(s) ==
    LET t == Strip(s)
        v == DigitsVal(Unsigned(s), 0)
    IN  IF t # <<>> /\ Head(t) = "-" THEN 0 - v ELSE v

\* list(range(a, b + 1))
RangeList(a, b) == [i \in 1..(b - a + 1) |-> a + i - 1]

RECURSIVE SortedList(_)
\* sorted(S), S a set of integers
SortedList(S) ==
    IF S = {} THEN <<>>
    ELSE LET m == CHOOSE x \in S : \A y \in S : x <= y
         IN  <<m>> \o SortedList(S \ {m})

Elems(q) == {q[i] : i \in 1..Len(q)}

-----------------------------------------------------------------------------
(* The selection of interactive_close_session. *)

ValueError == [ok |-> FALSE, idx |-> <<>>]

\* RangeOf without the swap
RangeOf_NoSwap(a, b) == RangeList(IntVal(a) - 1, IntVal(b) - 1)

\* a - 1 and b - 1, swapped when a > b, then range(a, b + 1)
RangeOf(a, b) ==
    LET a0 == IntVal(a) - 1
        b0 == IntVal(b) - 1
    IN  IF a0 > b0 THEN RangeList(b0, a0) ELSE RangeList(a0, b0)

RECURSIVE ParseParts(_, _)
\* the loop over choice.split(','), inside the try
ParseParts(parts, acc) ==
    IF parts = <<>> THEN [ok |-> TRUE, idx |-> acc]
    ELSE LET part == Strip(Head(parts))
         IN  IF Contains(part, "-")
             THEN LET ab == SplitMax(part, "-", 1)
                  IN  IF IsInt(ab[1]) /\ IsInt(ab[2])
                      THEN ParseParts(Tail(parts), acc \o RangeOf(ab[1], ab[2]))
                      ELSE ValueError
             ELSE IF part # <<>>
                  THEN IF IsInt(part)
                       THEN ParseParts(Tail(parts), Append(acc, IntVal(part) - 1))
                       ELSE ValueError
                  ELSE ParseParts(Tail(parts), acc)

RECURSIVE ParsePartsLenient(_, _)
\* ParseParts with a token that int() refuses left out
ParsePartsLenient(parts, acc) ==
    IF parts = <<>> THEN [ok |-> TRUE, idx |-> acc]
    ELSE LET one == ParseParts(<<Head(parts)>>, <<>>)
         IN  ParsePartsLenient(Tail(parts), IF one.ok THEN acc \o one.idx ELSE acc)

\* ParseSelection that keeps the indices of the tokens it could read
ParseSelection_Lenient(ch) == ParsePartsLenient(Split(ch, ","), <<>>)

\* indices after the try: the list, or ValueError
ParseSelection(ch) == ParseParts(Split(ch, ","), <<>>)

\* sorted(set(i for i in indices if 0 <= i < len(self.sessions)))
FilterIndices(idx, n) == SortedList({i \in 0..(n - 1) : \E k \in 1..Len(idx) : idx[k] = i})

-----------------------------------------------------------------------------
(* Names, and the tmux server the program talks to. *)

Workspace == <<"w", "o", "r", "k", "s", "p", "a", "c", "e">>
Dev == <<"d", "e", "v">>
Api == <<"a", "p", "i">>

\* the session names of the model, in the order tmux lists them
NameOrder == <<Api, Dev, Workspace>>
Names == Elems(NameOrder)

\* #{session_id} of a session
SessionId(name) ==
    CASE name = Api -> <<"$", "0">>
      [] name = Dev -> <<"$", "1">>
      [] OTHER -> <<"$", "2">>

RECURSIVE Join(_, _)
\* sep.join(lines)
Join(lines, sep) ==
    IF lines = <<>> THEN <<>>
    ELSE IF Len(lines) = 1 THEN lines[1]
    ELSE lines[1] \o <<sep>> \o Join(Tail(lines), sep)

\* one line of 'list-sessions -F #{session_id}:#{session_name}:#{session_attached}:
\* #{session_windows}:#{session_created}'
SessionLine(name, attached) ==
    SessionId(name) \o <<":">> \o name \o <<":">>
        \o (IF attached THEN <<"1">> ELSE <<"0">>) \o <<":", "1", ":", "1", "7">>

\* what tmux prints for list-sessions, the trailing newline included
ListSessionsText(srv) ==
    LET here == SelectSeq(NameOrder, LAMBDA n : srv[n] # "absent")
        lines == [i \in 1..Len(here) |->
                    SessionLine(here[i], srv[here[i]] = "attached")]
    IN  IF here = <<>> THEN <<>> ELSE Join(lines, NL) \o <<NL>>

-----------------------------------------------------------------------------
(* TmuxManager.run and TmuxManager.refresh. *)

\* stdout of the tmux process: nothing when tmux fails (the error goes to
\* stderr) or cannot be run
Stdout(t, out) == IF t = "ok" THEN out ELSE <<>>

\* TmuxManager.run: stdout stripped, "" when subprocess.run raised
Run(t, out) == IF t = "missing" THEN <<>> ELSE Strip(Stdout(t, out))

NoSessions == [ok |-> TRUE, list |-> <<>>]

RECURSIVE ParseSessionLines(_, _, _)
\* the loop of refresh over sessions_raw.split('\n'); ok FALSE: int() raised
\* ValueError
ParseSessionLines(lines, cur, acc) ==
    IF lines = <<>> THEN [ok |-> TRUE, list |-> acc]
    ELSE LET line == Head(lines)
             parts == Split(line, ":")
         IN  IF line = <<>> THEN ParseSessionLines(Tail(lines), cur, acc)
             ELSE IF Len(parts) < 5 THEN ParseSessionLines(Tail(lines), cur, acc)
             ELSE IF ~IsInt(parts[4]) THEN [ok |-> FALSE, list |-> acc]
             ELSE ParseSessionLines(Tail(lines), cur, Append(acc,
                    [id |-> parts[1],
                     name |-> parts[2],
                     attached |-> (parts[3] = <<"1">>),
                     windows |-> IntVal(parts[4]),
                     is_current |-> (cur # <<>> /\ parts[2] = cur),
                     created |-> IF IsDigitStr(parts[5])
                                 THEN <<IntVal(parts[5])>> ELSE <<>>]))

\* refresh, given what display-message and list-sessions return through run:
\* [current, ok, list]; current "" is None
RefreshFrom(current, sessions_raw) ==
    LET r == ParseSessionLines(Split(sessions_raw, NL), current, <<>>)
    IN  [current |-> current, ok |-> r.ok, list |-> r.list]

\* refresh against the server
Refresh(t, srv, cl) ==
    RefreshFrom(Run(t, cl \o <<NL>>), Run(t, ListSessionsText(srv)))

-----------------------------------------------------------------------------
(* display_session_list: the class of a session and the safe list. *)

\* Classify with the name tested before the attached flag
Classify_ProtectedFirst(s) ==
    IF s.is_current THEN "CURRENT"
    ELSE IF s.name = Workspace THEN "PROTECTED"
    ELSE IF s.attached THEN "ATTACHED"
    ELSE "SAFE"

\* the if / elif chain of display_session_list
Classify(s) ==
    IF s.is_current THEN "CURRENT"
    ELSE IF s.attached THEN "ATTACHED"
    ELSE IF s.name = Workspace THEN "PROTECTED"
    ELSE "SAFE"

\* safe_sessions, as display_session_list returns it
SafeSessions(ss) == SelectSeq(ss, LAMBDA s : Classify(s) = "SAFE")

\* Closable of every session
Closable_Always(s) == TRUE

\* Closable without the test of the name
Closable_NoProtected(s) == ~(s.is_current \/ s.attached)

\* the filter of interactive_close_session over the sorted indices
Closable(s) == ~(s.is_current \/ s.attached \/ s.name = Workspace)

\* ToClose without the filter
ToClose_Unfiltered(ss, idx) == [k \in 1..Len(idx) |-> ss[idx[k] + 1]]

\* to_close
ToClose(ss, idx) ==
    LET picked == [k \in 1..Len(idx) |-> ss[idx[k] + 1]]
    IN  SelectSeq(picked, Closable)

-----------------------------------------------------------------------------
(* get_windows, get_panes and get_session_app_summary. *)

RECURSIVE ParseWindowLines(_, _)
\* the loop of get_windows over windows_raw.split('\n'); ok FALSE: int() raised
\* ValueError
ParseWindowLines(lines, acc) ==
    IF lines = <<>> THEN [ok |-> TRUE, list |-> acc]
    ELSE LET line == Head(lines)
             parts == Split(line, ":")
         IN  IF line = <<>> THEN ParseWindowLines(Tail(lines), acc)
             ELSE IF Len(parts) < 4 THEN ParseWindowLines(Tail(lines), acc)
             ELSE IF ~IsInt(parts[4]) THEN [ok |-> FALSE, list |-> acc]
             ELSE ParseWindowLines(Tail(lines), Append(acc,
                    [id |-> parts[1],
                     name |-> parts[2],
                     active |-> (parts[3] = <<"1">>),
                     panes |-> IntVal(parts[4])]))

\* get_windows, given the stdout of list-windows
GetWindows(t, out) == ParseWindowLines(Split(Run(t, out), NL), <<>>)

Untitled == <<"U", "n", "t", "i", "t", "l", "e", "d">>

RECURSIVE ParsePaneLines(_, _)
\* the loop of get_panes over panes_raw.split('\n')
ParsePaneLines(lines, acc) ==
    IF lines = <<>> THEN acc
    ELSE LET line == Head(lines)
             parts == SplitMax(line, ":", 3)
         IN  IF line = <<>> THEN ParsePaneLines(Tail(lines), acc)
             ELSE IF Len(parts) < 4 THEN ParsePaneLines(Tail(lines), acc)
             ELSE ParsePaneLines(Tail(lines), Append(acc,
                    [id |-> parts[1],
                     title |-> IF parts[2] # <<>> THEN parts[2] ELSE Untitled,
                     active |-> (parts[3] = <<"1">>),
                     command |-> parts[4]]))

\* get_panes, given the stdout of list-panes
GetPanes(t, out) == ParsePaneLines(Split(Run(t, out), NL), <<>>)

\* what tmux prints for 'list-panes -t session:window_id'
ListPanesText(table, wid) ==
    LET mine == SelectSeq(table, LAMBDA e : e[1] = wid)
        lines == [i \in 1..Len(mine) |-> mine[i][2]]
    IN  IF mine = <<>> THEN <<>> ELSE Join(lines, NL) \o <<NL>>

\* window['id'].replace('@', '')
WithoutAt(s) == SelectSeq(s, LAMBDA c : c # "@")

Shells == {<<"b", "a", "s", "h">>, <<"z", "s", "h">>, <<"s", "h">>}
Editors == {<<"v", "i", "m">>, <<"n", "v", "i", "m">>, <<"v", "i">>, <<"n", "a", "n", "o">>}
Claude == <<"c", "l", "a", "u", "d", "e">>
Pythons == {<<"p", "y", "t", "h", "o", "n">>, <<"p", "y", "t", "h", "o", "n", "3">>, <<"i", "p", "y", "t", "h", "o", "n">>}
Nodes == {<<"n", "o", "d", "e">>, <<"n", "p", "m">>, <<"b", "u", "n">>, <<"y", "a", "r", "n">>}
Browsers == {<<"l", "y", "n", "x">>, <<"c", "a", "r", "b", "o", "n", "y", "l">>, <<"w", "3", "m">>}
Ranger == <<"r", "a", "n", "g", "e", "r">>
Monitors == {<<"h", "t", "o", "p">>, <<"t", "o", "p">>, <<"b", "t", "o", "p">>}
Docker == <<"d", "o", "c", "k", "e", "r">>

\* cmd and cmd.strip()
NonBlank(cmd) == cmd # <<>> /\ Strip(cmd) # <<>>

\* AppCategory with a name of spaces counted as 'other'
AppCategory_BlankOther(cmd) ==
    IF cmd \in Shells THEN "shell"
    ELSE IF cmd \in Editors THEN "editor"
    ELSE IF cmd = Claude THEN "claude"
    ELSE IF cmd \in Pythons THEN "python"
    ELSE IF cmd \in Nodes THEN "node"
    ELSE IF cmd \in Browsers THEN "browser"
    ELSE IF cmd = Ranger THEN "files"
    ELSE IF cmd \in Monitors THEN "monitor"
    ELSE IF cmd = Docker THEN "docker"
    ELSE IF cmd # <<>> THEN "other"
    ELSE ""

\* the if / elif chain of get_session_app_summary: the key of app_counts that is
\* incremented, "" when none is
AppCategory(cmd) ==
    IF cmd \in Shells THEN "shell"
    ELSE IF cmd \in Editors THEN "editor"
    ELSE IF cmd = Claude THEN "claude"
    ELSE IF cmd \in Pythons THEN "python"
    ELSE IF cmd \in Nodes THEN "node"
    ELSE IF cmd \in Browsers THEN "browser"
    ELSE IF cmd = Ranger THEN "files"
    ELSE IF cmd \in Monitors THEN "monitor"
    ELSE IF cmd = Docker THEN "docker"
    ELSE IF NonBlank(cmd) THEN "other"
    ELSE ""

\* d.get(k, 0)
Get(d, k) == IF k \in DOMAIN d THEN d[k] ELSE 0

\* d[k] = d.get(k, 0) + 1
Incr(d, k) == [x \in DOMAIN d \cup {k} |-> IF x = k THEN Get(d, k) + 1 ELSE d[x]]

NoCounts == [x \in {} |-> 0]

EmptySummary == [total_panes |-> 0, app_counts |-> NoCounts, unique_apps |-> {}]

\* the body of the loop over the panes of one window
CountPane(sum, pane) ==
    LET cmd == pane.command
        cat == AppCategory(cmd)
    IN  [total_panes |-> sum.total_panes + 1,
         app_counts |-> IF cat = "" THEN sum.app_counts
                        ELSE Incr(sum.app_counts, cat),
         unique_apps |-> IF NonBlank(cmd) THEN sum.unique_apps \cup {cmd}
                         ELSE sum.unique_apps]

RECURSIVE CountPanes(_, _)
CountPanes(sum, panes) ==
    IF panes = <<>> THEN sum
    ELSE CountPanes(CountPane(sum, Head(panes)), Tail(panes))

RECURSIVE CountWindows(_, _, _, _)
CountWindows(sum, t, ws, table) ==
    IF ws = <<>> THEN sum
    ELSE CountWindows(
            CountPanes(sum, GetPanes(t, ListPanesText(table, WithoutAt(Head(ws).id)))),
            t, Tail(ws), table)

\* get_session_app_summary: an exception of get_windows is swallowed by the
\* bare except, with the counts as they are then
GetSessionAppSummary(t, wout, table) ==
    LET w == GetWindows(t, wout)
    IN  IF w.ok THEN CountWindows(EmptySummary, t, w.list, table)
        ELSE EmptySummary

-----------------------------------------------------------------------------
(* What the user types, and what the directory provider returns. *)

\* lines typed at the main menu
MenuInputs == {<<"1">>, <<"2">>, <<"3">>, <<"4">>, <<"5">>, <<"6">>, <<"7">>, <<"x">>}

\* lines typed at the Close prompt
CloseInputs ==
    {<<"q">>,
     <<"Q">>,
     <<"1">>,
     <<"2">>,
     <<"3">>,
     <<"1", ",", "2", ",", "3">>,
     <<"1", "-", "3">>,
     <<"3", "-", "1">>,
     <<"2", ",", "a">>,
     <<"a">>,
     <<>>,
     <<"1", ",">>,
     <<"9">>,
     <<"0">>,
     <<" ", "2", " ", ",", " ", "3", " ">>,
     <<"1", "-">>,
     <<"2", "-", "9">>,
     <<"1", "-", "2", "-", "3">>,
     <<"-", "1">>}

\* lines typed at the confirmation of Close
ConfirmInputs == {<<"y", "e", "s">>, <<"Y", "E", "S">>, <<" ", "Y", "e", "s", " ">>, <<"y">>, <<"n", "o">>, <<>>, <<"y", "e", "s", "!">>}

\* lines typed at the prompts of Details, Switch and Open Dir
IndexInputs == {<<"q">>, <<"1">>, <<"2">>, <<"3">>, <<"4">>, <<"0">>, <<"a">>, <<>>, <<" ", "2">>, <<"-", "1">>}

PathApi == <<"/", "p", "/", "a", "p", "i">>
PathDev == <<"/", "p", "/", "d", "e", "v">>
PathDev2 == <<"/", "w", "/", "d", "e", "v">>

\* results of list_project_dirs(): sorted paths
DirListings == {<<>>, <<PathApi>>, <<PathDev, PathDev2>>, <<PathApi, PathDev, PathDev2>>}

\* os.path.basename(path)
Basename(path) == LET parts == Split(path, "/") IN parts[Len(parts)]

\* list-windows of a session, as the server of Spec answers it
WindowsSample == <<"@", "0", ":", "M", "u", "l", "t", "i", "-", "V", "i", "e", "w", ":", "1", ":", "2">> \o <<NL>>

\* the panes of that window
PanesSample == <<<<<<"0">>, <<"%", "0", ":", "h", "o", "s", "t", ":", "1", ":", "c", "l", "a", "u", "d", "e">>>>, <<<<"0">>, <<"%", "1", ":", ":", "0", ":", "r", "a", "n", "g", "e", "r">>>>>>

-----------------------------------------------------------------------------
(* The tmux commands run with subprocess.run, outside TmuxManager.run. *)

Cmd(op, opt, target, cwd) == [op |-> op, opt |-> opt, target |-> target, cwd |-> cwd]

\* subprocess.run raises FileNotFoundError when the binary cannot be run
Raises(t) == t = "missing"

\* the seven subprocess.run calls of create_four_pane_session
FourPaneCmds(name, cwd) ==
    <<Cmd("new-session", "Multi-View", name, cwd),
      Cmd("split-window", "-h", name \o <<":", "0">>, cwd),
      Cmd("split-window", "-v", name \o <<":", "0", ".", "0">>, cwd),
      Cmd("split-window", "-v", name \o <<":", "0", ".", "1">>, cwd),
      Cmd("select-layout", "tiled", name \o <<":", "0">>, <<>>),
      Cmd("send-keys", "claude", name \o <<":", "0", ".", "0">>, <<>>),
      Cmd("send-keys", "ranger", name \o <<":", "0", ".", "1">>, <<>>)>>

\* the server after 'new-session -d -s name': a duplicate name is refused
AfterNewSession(t, srv, name) ==
    IF t = "ok" /\ name \in DOMAIN srv /\ srv[name] = "absent"
    THEN [srv EXCEPT ![name] = "detached"]
    ELSE srv

\* the server after 'kill-session -t name'
AfterKill(t, srv, name) ==
    IF t = "ok" /\ name \in DOMAIN srv THEN [srv EXCEPT ![name] = "absent"] ELSE srv

RECURSIVE AfterKills(_, _, _)
AfterKills(t, srv, list) ==
    IF list = <<>> THEN srv
    ELSE AfterKills(t, AfterKill(t, srv, Head(list).name), Tail(list))

\* the kill-session calls of interactive_close_session, one for each of to_close
KillCmds(list) == [i \in 1..Len(list) |-> Cmd("kill-session", "", list[i].name, <<>>)]

\* what 'switch-client -t name' may leave: nothing changed (no client to switch,
\* no such session), or the client on name, the session it left attached or not
AfterSwitch(t, srv, cl, name) ==
    {[server |-> srv, client |-> cl]} \cup
    IF t = "ok" /\ name \in DOMAIN srv /\ srv[name] # "absent"
    THEN {[server |-> [n \in DOMAIN srv |->
                        IF n = name THEN "attached"
                        ELSE IF n = cl THEN st ELSE srv[n]],
           client |-> name] : st \in {"attached", "detached"}}
    ELSE {}

\* the names of self.sessions
ExistingNames(ss) == {ss[i].name : i \in 1..Len(ss)}

RECURSIVE MissingPaths(_, _)
\* the paths start_missing_sessions creates a session for, in order
MissingPaths(paths, existing) ==
    IF paths = <<>> THEN <<>>
    ELSE IF Basename(Head(paths)) \in existing
         THEN MissingPaths(Tail(paths), existing)
         ELSE <<Head(paths)>> \o MissingPaths(Tail(paths), existing)

RECURSIVE CreateAll(_, _, _)
\* create_four_pane_session for each path: [server, cmds]
CreateAll(t, st, paths) ==
    IF paths = <<>> THEN st
    ELSE LET name == Basename(Head(paths))
         IN  CreateAll(t,
                [server |-> AfterNewSession(t, st.server, name),
                 cmds |-> st.cmds \o FourPaneCmds(name, Head(paths))],
                Tail(paths))

\* display_session_list raises what its own get_windows call raises
DisplayRaises(t, ss, wout) == ss # <<>> /\ ~GetWindows(t, wout).ok

-----------------------------------------------------------------------------
(* main_menu and its handlers. *)

NoIndices == [ok |-> TRUE, idx |-> <<>>]

env == <<server, client, tool, dirs, windows_raw, pane_table, windows, summary>>
snapshot == <<raw, sessions, current_session>>
closing == <<indices, to_close, confirm>>

Crash(e) == pc' = "crashed" /\ exc' = e
Return == pc' = "top" /\ exc' = exc
Say(m) == msg' = Append(msg, m)

\* the state after TmuxManager() ran refresh once
Init ==
    /\ server \in [Names -> {"absent", "detached", "attached"}]
    /\ client \in {<<>>} \cup {n \in Names : server[n] # "absent"}
    /\ tool \in {"ok", "error", "missing"}
    /\ dirs \in DirListings
    /\ raw = Stdout(tool, ListSessionsText(server))
    /\ sessions = Refresh(tool, server, client).list
    /\ current_session = Refresh(tool, server, client).current
    /\ pc = "top"
    /\ menu = <<>>
    /\ choice = <<>>
    /\ indices = NoIndices
    /\ to_close = <<>>
    /\ confirm = <<>>
    /\ cmds = <<>>
    /\ msg = <<>>
    /\ exc = "none"
    /\ windows_raw = WindowsSample
    /\ pane_table = PanesSample
    /\ windows = NoSessions
    /\ summary = EmptySummary

\* refresh and display_session_list raise nothing at the top of the loop, so
\* that the loop gets to its Choice prompt
ReachesPrompt ==
    LET r == Refresh(tool, server, client)
    IN  r.ok /\ ~DisplayRaises(tool, r.list, windows_raw)

\* the top of the loop of main_menu: refresh, the header and the session list,
\* up to the Choice prompt
MenuRefresh ==
    /\ pc = "top"
    /\ LET r == Refresh(tool, server, client)
       IN  /\ raw' = Stdout(tool, ListSessionsText(server))
           /\ sessions' = r.list
           /\ current_session' = r.current
           /\ IF ~ReachesPrompt
              THEN Crash("ValueError")
              ELSE pc' = "menu" /\ exc' = exc
    /\ menu' = <<>>
    /\ choice' = <<>>
    /\ indices' = NoIndices
    /\ to_close' = <<>>
    /\ confirm' = <<>>
    /\ cmds' = <<>>
    /\ msg' = <<>>
    /\ UNCHANGED env

\* choice = input().strip() at the main menu
Chosen(c) ==
    /\ pc = "menu"
    /\ \E line \in MenuInputs : Strip(line) = c /\ menu' = Strip(line)

\* '1': show_session_details_interactive, up to its prompt
DetailsOpen ==
    /\ Chosen(<<"1">>)
    /\ pc' = "details_prompt"
    /\ UNCHANGED <<env, snapshot, closing, choice, cmds, msg, exc>>

\* show_session_details_interactive, from its prompt
DetailsSelect ==
    /\ pc = "details_prompt"
    /\ \E line \in IndexInputs :
        /\ choice' = Strip(line)
        /\ IF Lower(Strip(line)) = <<"q">> THEN Return
           ELSE IF ~IsInt(Strip(line)) THEN Return
           ELSE IF IntVal(Strip(line)) - 1 < 0 \/ IntVal(Strip(line)) - 1 >= Len(sessions)
                THEN Return
           ELSE IF ~GetWindows(tool, windows_raw).ok THEN Return
           ELSE Return
    /\ UNCHANGED <<env, snapshot, closing, menu, cmds, msg>>

\* '2': interactive_close_session, up to its first prompt
CloseOpen ==
    /\ Chosen(<<"2">>)
    /\ IF SafeSessions(sessions) = <<>>
       THEN Say("No unused sessions to clean up!") /\ Return
       ELSE pc' = "close_prompt" /\ UNCHANGED <<msg, exc>>
    /\ UNCHANGED <<env, snapshot, closing, choice, cmds>>

\* interactive_close_session, from the selection prompt to the confirmation prompt
CloseSelect(inputs) ==
    /\ pc = "close_prompt"
    /\ \E line \in inputs :
        LET ch == Strip(line)
            p == ParseSelection(ch)
            idx == FilterIndices(p.idx, Len(sessions))
            tc == ToClose(sessions, idx)
        IN  /\ choice' = ch
            /\ IF Lower(ch) = <<"q">>
               THEN Return /\ UNCHANGED <<indices, to_close, msg>>
               ELSE IF ~p.ok
               THEN /\ indices' = ValueError
                    /\ Say("Invalid input!")
                    /\ Return
                    /\ UNCHANGED to_close
               ELSE IF idx = <<>>
               THEN /\ indices' = [ok |-> TRUE, idx |-> idx]
                    /\ Say("Nothing selected.")
                    /\ Return
                    /\ UNCHANGED to_close
               ELSE IF tc = <<>>
               THEN /\ indices' = [ok |-> TRUE, idx |-> idx]
                    /\ to_close' = tc
                    /\ Say("No safe sessions selected.")
                    /\ Return
               ELSE /\ indices' = [ok |-> TRUE, idx |-> idx]
                    /\ to_close' = tc
                    /\ Say("Review to close:")
                    /\ IF ~GetWindows(tool, windows_raw).ok
                       THEN Crash("ValueError")
                       ELSE pc' = "close_confirm" /\ exc' = exc
    /\ UNCHANGED <<env, snapshot, confirm, menu, cmds>>

\* a confirmation by any line that starts with y
Confirmed_AnyY(c) == c # <<>> /\ LowerChar(c[1]) = "y"

\* confirm.lower() != 'yes', negated
Confirmed(c) == Lower(c) = <<"y", "e", "s">>

\* interactive_close_session, from the confirmation prompt
CloseConfirm ==
    /\ pc = "close_confirm"
    /\ \E line \in ConfirmInputs :
        /\ confirm' = Strip(line)
        /\ IF ~Confirmed(Strip(line))
           THEN Say("Cancelled.") /\ Return /\ UNCHANGED <<server, cmds>>
           ELSE IF Raises(tool)
           THEN Crash("FileNotFoundError") /\ UNCHANGED <<server, cmds, msg>>
           ELSE /\ cmds' = cmds \o KillCmds(to_close)
                /\ server' = AfterKills(tool, server, to_close)
                /\ Say(IF tool = "ok" THEN "Closed" ELSE "Failed")
                /\ Return
    /\ UNCHANGED <<client, tool, dirs, windows_raw, pane_table, windows, summary, snapshot,
                   indices, to_close, menu, choice>>

\* '3': switch_to_session, up to its prompt
SwitchOpen ==
    /\ Chosen(<<"3">>)
    /\ pc' = "switch_prompt"
    /\ UNCHANGED <<env, snapshot, closing, choice, cmds, msg, exc>>

\* switch_to_session, from its prompt
SwitchSelect ==
    /\ pc = "switch_prompt"
    /\ \E line \in IndexInputs :
        LET ch == Strip(line)
            idx == IntVal(ch) - 1
        IN  /\ choice' = ch
            /\ IF Lower(ch) = <<"q">> \/ ~IsInt(ch)
               THEN Return /\ UNCHANGED <<server, client, cmds, msg>>
               ELSE IF idx < 0 \/ idx >= Len(sessions)
               THEN Return /\ UNCHANGED <<server, client, cmds, msg>>
               ELSE IF sessions[idx + 1].is_current
               THEN Say("Already there!") /\ Return /\ UNCHANGED <<server, client, cmds>>
               ELSE IF Raises(tool)
               THEN Crash("FileNotFoundError") /\ UNCHANGED <<server, client, cmds, msg>>
               ELSE /\ cmds' = Append(cmds,
                            Cmd("switch-client", "", sessions[idx + 1].name, <<>>))
                    /\ \E after \in AfterSwitch(tool, server, client, sessions[idx + 1].name) :
                            server' = after.server /\ client' = after.client
                    /\ Return
                    /\ UNCHANGED msg
    /\ UNCHANGED <<tool, dirs, windows_raw, pane_table, windows, summary, snapshot, closing, menu>>

\* '4': show_quick_tips
Tips ==
    /\ Chosen(<<"4">>)
    /\ Return
    /\ UNCHANGED <<env, snapshot, closing, choice, cmds, msg>>

\* '5': start_missing_sessions, and the message of main_menu after it
StartMissing ==
    /\ Chosen(<<"5">>)
    /\ LET todo == MissingPaths(dirs, ExistingNames(sessions))
           done == CreateAll(tool, [server |-> server, cmds |-> cmds], todo)
       IN  IF todo # <<>> /\ Raises(tool)
           THEN Crash("FileNotFoundError") /\ UNCHANGED <<server, cmds, msg>>
           ELSE /\ server' = done.server
                /\ cmds' = done.cmds
                /\ Say("Started missing project sessions with 4-pane layout.")
                /\ Return
    /\ UNCHANGED <<client, tool, dirs, windows_raw, pane_table, windows, summary, snapshot,
                   closing, choice>>

\* '6': open_directory_in_view, up to the pick of a directory
OpenDirOpen ==
    /\ Chosen(<<"6">>)
    /\ pc' = "opendir_pick"
    /\ UNCHANGED <<env, snapshot, closing, choice, cmds, msg, exc>>

\* the rest of open_directory_in_view, once sel is a path
OpenPath(sel) ==
    IF \E i \in 1..Len(sessions) : sessions[i].name = Basename(sel)
    THEN Say("Session already exists") /\ Return /\ UNCHANGED <<server, cmds>>
    ELSE IF Raises(tool)
    THEN Crash("FileNotFoundError") /\ UNCHANGED <<server, cmds, msg>>
    ELSE /\ server' = AfterNewSession(tool, server, Basename(sel))
         /\ cmds' = cmds \o FourPaneCmds(Basename(sel), sel)
         /\ Say("Opened")
         /\ Return

\* open_directory_in_view, from the pick: fzf's answer (<<>>: none, or no fzf),
\* then the numbered prompt
OpenDirPick ==
    /\ pc = "opendir_pick"
    /\ \E sel \in {<<>>} \cup Elems(dirs) :
        IF sel # <<>>
        THEN OpenPath(sel) /\ UNCHANGED choice
        ELSE \E line \in IndexInputs :
                LET ch == Strip(line)
                    idx == IntVal(ch) - 1
                IN  /\ choice' = ch
                    /\ IF Lower(ch) = <<"q">> \/ ~IsInt(ch)
                       THEN Return /\ UNCHANGED <<server, cmds, msg>>
                       ELSE IF 0 <= idx /\ idx < Len(dirs)
                       THEN OpenPath(dirs[idx + 1])
                       ELSE Return /\ UNCHANGED <<server, cmds, msg>>
    /\ UNCHANGED <<client, tool, dirs, windows_raw, pane_table, windows, summary, snapshot,
                   closing, menu>>

\* '7': leave the loop
Exit ==
    /\ Chosen(<<"7">>)
    /\ pc' = "exit"
    /\ UNCHANGED <<env, snapshot, closing, choice, cmds, msg, exc>>

\* anything else: continue
Other ==
    /\ pc = "menu"
    /\ \E line \in MenuInputs :
        /\ Strip(line) \notin {<<"1">>, <<"2">>, <<"3">>, <<"4">>, <<"5">>, <<"6">>, <<"7">>}
        /\ menu' = Strip(line)
    /\ Return
    /\ UNCHANGED <<env, snapshot, closing, choice, cmds, msg>>

\* the environment: the tmux server goes away ("error") or the binary does
\* ("missing") while the program runs
ToolFails ==
    /\ pc \notin {"exit", "crashed"}
    /\ tool = "ok"
    /\ tool' \in {"error", "missing"}
    /\ UNCHANGED <<pc, server, client, dirs, windows_raw, pane_table, windows, summary, snapshot,
                   closing, menu, choice, cmds, msg, exc>>

Next ==
    \/ MenuRefresh
    \/ DetailsOpen
    \/ DetailsSelect
    \/ CloseOpen
    \/ CloseSelect(CloseInputs)
    \/ CloseConfirm
    \/ SwitchOpen
    \/ SwitchSelect
    \/ Tips
    \/ StartMissing
    \/ OpenDirOpen
    \/ OpenDirPick
    \/ Exit
    \/ Other
    \/ ToolFails

Spec == Init /\ [][Next]_vars

-----------------------------------------------------------------------------
(* The selection of Close over every short string: the Close prompt with an   *)
(* inventory of n safe sessions.                                               *)

\* the characters of a selection string
SelAlphabet == {"2", "4", "6", ",", "-", "a"}

StringsUpTo(A, k) == UNION {[1..m -> A] : m \in 0..k}

RECURSIVE Decimal(_)
\* str(i), i >= 0
Decimal(i) ==
    LET d == CHOOSE c \in DigitChars : DigitVal(c) = i % 10
    IN  IF i < 10 THEN <<d>> ELSE Append(Decimal(i \div 10), d)

\* the name of the i-th session of the pool
PoolName(i) == <<"s">> \o Decimal(i)

\* list-sessions of n detached sessions
PoolText(n) ==
    Join([i \in 1..n |-> <<"$">> \o Decimal(i) \o <<":">> \o PoolName(i)
                            \o <<":", "0", ":", "1", ":", "1", "7">>], NL) \o <<NL>>

InitParse ==
    /\ client = <<>>
    /\ tool = "ok"
    /\ dirs = <<>>
    /\ current_session = <<>>
    /\ pc = "close_prompt"
    /\ menu = <<"2">>
    /\ choice = <<>>
    /\ indices = NoIndices
    /\ to_close = <<>>
    /\ confirm = <<>>
    /\ cmds = <<>>
    /\ msg = <<>>
    /\ exc = "none"
    /\ windows_raw = WindowsSample
    /\ pane_table = PanesSample
    /\ windows = NoSessions
    /\ summary = EmptySummary
    /\ \E n \in (MaxN - 2)..MaxN :
        /\ server = [name \in {PoolName(i) : i \in 1..n} |-> "detached"]
        /\ raw = PoolText(n)
        /\ sessions = RefreshFrom(<<>>, Strip(PoolText(n))).list

NextParse == CloseSelect(StringsUpTo(SelAlphabet, MaxLen))

SpecParse == InitParse /\ [][NextParse]_vars

-----------------------------------------------------------------------------
(* The collector over sample outputs of tmux: refresh and get_windows as      *)
(* functions of what list-sessions and list-windows print.                    *)

\* lines of a list-sessions output: two well-formed, a window count that is not
\* a number, too few fields, an empty line
SessionLineSamples ==
    {<<"$", "1", ":", "d", "e", "v", ":", "1", ":", "2", ":", "1", "7">>,
     <<"$", "0", ":", "a", "p", "i", ":", "0", ":", "1", ":", "x">>,
     <<"$", "2", ":", "t", "m", "p", ":", "0", ":", "x", ":", "1", "7">>,
     <<"$", "3", ":", "w", ":", "1">>,
     <<>>}

\* lines of a list-windows output: well-formed, a pane count that is not a
\* number, too few fields, an empty pane count
WindowLineSamples ==
    {<<"@", "0", ":", "m", "a", "i", "n", ":", "1", ":", "2">>,
     <<"@", "1", ":", "l", "o", "g", "s", ":", "0", ":", "x">>,
     <<"@", "2", ":", "w">>,
     <<"@", "3", ":", "e", ":", "0", ":">>}

SeqsUpTo(A, k) == UNION {[1..m -> A] : m \in 0..k}

\* the lines as tmux prints them, each ended by a newline
TextOf(lines) == IF lines = <<>> THEN <<>> ELSE Join(lines, NL) \o <<NL>>

InitCollect ==
    /\ server = [n \in Names |-> "absent"]
    /\ dirs = <<>>
    /\ sessions = <<>>
    /\ current_session = <<>>
    /\ pc = "collect"
    /\ menu = <<>>
    /\ choice = <<>>
    /\ indices = NoIndices
    /\ to_close = <<>>
    /\ confirm = <<>>
    /\ cmds = <<>>
    /\ msg = <<>>
    /\ exc = "none"
    /\ pane_table = <<>>
    /\ windows = NoSessions
    /\ summary = EmptySummary
    /\ raw \in {TextOf(ls) : ls \in SeqsUpTo(SessionLineSamples, MaxLines)}
    /\ windows_raw \in {TextOf(ls) : ls \in SeqsUpTo(WindowLineSamples, MaxLines)}
    /\ client \in {<<>>, Dev}
    /\ tool \in {"ok", "missing"}

\* a call of refresh
CollectRefresh ==
    /\ pc = "collect"
    /\ LET r == RefreshFrom(Run(tool, client \o <<NL>>), Run(tool, raw))
       IN  /\ sessions' = r.list
           /\ current_session' = r.current
           /\ exc' = IF r.ok THEN "none" ELSE "ValueError"
    /\ pc' = "refreshed"
    /\ UNCHANGED <<env, raw, closing, menu, choice, cmds, msg>>

\* a call of get_windows
CollectWindows ==
    /\ pc = "collect"
    /\ windows' = GetWindows(tool, windows_raw)
    /\ exc' = IF GetWindows(tool, windows_raw).ok THEN "none" ELSE "ValueError"
    /\ pc' = "listed"
    /\ UNCHANGED <<server, client, tool, dirs, windows_raw, pane_table, summary,
                   snapshot, closing, menu, choice, cmds, msg>>

NextCollect == CollectRefresh \/ CollectWindows

SpecCollect == InitCollect /\ [][NextCollect]_vars

-----------------------------------------------------------------------------
(* get_session_app_summary over sample panes.                                 *)

\* lines of a list-panes output: one for each command name the summary knows,
\* an unknown name, an empty name, a blank name, too few fields
PaneLineSamples ==
    {<<"%", "1", ":", "t", ":", "1", ":", "b", "a", "s", "h">>,
     <<"%", "1", ":", "t", ":", "1", ":", "z", "s", "h">>,
     <<"%", "1", ":", "t", ":", "1", ":", "s", "h">>,
     <<"%", "1", ":", "t", ":", "1", ":", "v", "i", "m">>,
     <<"%", "1", ":", "t", ":", "1", ":", "n", "v", "i", "m">>,
     <<"%", "1", ":", "t", ":", "1", ":", "v", "i">>,
     <<"%", "1", ":", "t", ":", "1", ":", "n", "a", "n", "o">>,
     <<"%", "1", ":", "t", ":", "1", ":", "c", "l", "a", "u", "d", "e">>,
     <<"%", "1", ":", "t", ":", "1", ":", "p", "y", "t", "h", "o", "n">>,
     <<"%", "1", ":", "t", ":", "1", ":", "p", "y", "t", "h", "o", "n", "3">>,
     <<"%", "1", ":", "t", ":", "1", ":", "i", "p", "y", "t", "h", "o", "n">>,
     <<"%", "1", ":", "t", ":", "1", ":", "n", "o", "d", "e">>,
     <<"%", "1", ":", "t", ":", "1", ":", "n", "p", "m">>,
     <<"%", "1", ":", "t", ":", "1", ":", "b", "u", "n">>,
     <<"%", "1", ":", "t", ":", "1", ":", "y", "a", "r", "n">>,
     <<"%", "1", ":", "t", ":", "1", ":", "l", "y", "n", "x">>,
     <<"%", "1", ":", "t", ":", "1", ":", "c", "a", "r", "b", "o", "n", "y", "l">>,
     <<"%", "1", ":", "t", ":", "1", ":", "w", "3", "m">>,
     <<"%", "1", ":", "t", ":", "1", ":", "r", "a", "n", "g", "e", "r">>,
     <<"%", "1", ":", "t", ":", "1", ":", "h", "t", "o", "p">>,
     <<"%", "1", ":", "t", ":", "1", ":", "t", "o", "p">>,
     <<"%", "1", ":", "t", ":", "1", ":", "b", "t", "o", "p">>,
     <<"%", "1", ":", "t", ":", "1", ":", "d", "o", "c", "k", "e", "r">>,
     <<"%", "1", ":", "t", ":", "1", ":", "f", "o", "o", "b", "a", "r">>,
     <<"%", "1", ":", ":", "0", ":">>,
     <<"%", "1", ":", "t", ":", "0", ":", " ", " ">>,
     <<"%", "1", ":", "t", ":", "1">>}

\* list-windows of a session with two windows
TwoWindows == TextOf(<<<<"@", "0", ":", "m", "a", "i", "n", ":", "1", ":", "2">>, <<"@", "1", ":", "l", "o", "g", "s", ":", "0", ":", "1">>>>)

\* a second line whose pane count is not a number: get_windows raises
BadWindows == TextOf(<<<<"@", "0", ":", "m", "a", "i", "n", ":", "1", ":", "2">>, <<"@", "1", ":", "l", "o", "g", "s", ":", "0", ":", "x">>>>)

WindowIds == {<<"0">>, <<"1">>}

\* the panes as tmux keeps them: those of window 0 before those of window 1
PaneTables(k) ==
    {[i \in 1..m |-> <<IF i <= cut THEN <<"0">> ELSE <<"1">>, ls[i]>>] :
        <<m, cut, ls>> \in {<<m, cut, ls>> \in (0..k) \X (0..k) \X SeqsUpTo(PaneLineSamples, k) :
                                Len(ls) = m /\ cut <= m}}

InitSummary ==
    /\ client = <<>>
    /\ tool = "ok"
    /\ server = [n \in Names |-> IF n = Dev THEN "detached" ELSE "absent"]
    /\ dirs = <<>>
    /\ raw = ListSessionsText(server)
    /\ sessions = Refresh(tool, server, client).list
    /\ current_session = <<>>
    /\ pc = "summary"
    /\ menu = <<>>
    /\ choice = <<>>
    /\ indices = NoIndices
    /\ to_close = <<>>
    /\ confirm = <<>>
    /\ cmds = <<>>
    /\ msg = <<>>
    /\ exc = "none"
    /\ windows = NoSessions
    /\ summary = EmptySummary
    /\ \/ windows_raw = TwoWindows /\ pane_table \in PaneTables(MaxPanes)
       \/ windows_raw = BadWindows /\ pane_table \in PaneTables(1)

\* a call of get_session_app_summary
Summarize ==
    /\ pc = "summary"
    /\ summary' = GetSessionAppSummary(tool, windows_raw, pane_table)
    /\ pc' = "summarized"
    /\ UNCHANGED <<server, client, tool, dirs, windows_raw, pane_table, windows,
                   snapshot, closing, menu, choice, cmds, msg, exc>>

NextSummary == Summarize

SpecSummary == InitSummary /\ [][NextSummary]_vars

-----------------------------------------------------------------------------
(* Properties of the Close action, checked under Spec. *)

KillTargets == {cmds[i].target : i \in {j \in 1..Len(cmds) : cmds[j].op = "kill-session"}}

Selected == {sessions[i + 1] : i \in Elems(indices.idx)}

\* interactive_close_session has built to_close from a selection
CloseFiltered == menu = <<"2">> /\ indices.ok /\ indices.idx # <<>>

\* C1: the Close action issues kill-session only for sessions that the snapshot
\* of this menu iteration holds as not current, not attached and not named
\* 'workspace', and no session whose class is CURRENT, ATTACHED or PROTECTED is
\* in the list to close.
C1_KillOnlySafe ==
    /\ \A t \in KillTargets :
        \E k \in 1..Len(sessions) :
            /\ sessions[k].name = t
            /\ ~sessions[k].is_current
            /\ ~sessions[k].attached
            /\ sessions[k].name # Workspace
    /\ \A i \in 1..Len(to_close) :
        Classify(to_close[i]) \notin {"CURRENT", "ATTACHED", "PROTECTED"}

\* a confirmed Close whose selection also held a session that is not safe
C1_Witness ==
    /\ pc = "top"
    /\ KillTargets # {}
    /\ \E s \in Selected : s.is_current \/ s.attached \/ s.name = Workspace

\* C2: the class of a session is decided by the first of current, attached,
\* named 'workspace' that holds, and is SAFE when none does.
C2_Precedence ==
    \A k \in 1..Len(sessions) :
        LET s == sessions[k]
        IN  /\ s.is_current => Classify(s) = "CURRENT"
            /\ ~s.is_current /\ s.attached => Classify(s) = "ATTACHED"
            /\ ~s.is_current /\ ~s.attached /\ s.name = Workspace
                    => Classify(s) = "PROTECTED"
            /\ ~s.is_current /\ ~s.attached /\ s.name # Workspace
                    => Classify(s) = "SAFE"

\* the list is displayed with 'workspace' attached but not current, and with
\* a current session that is not attached
C2_Witness ==
    /\ pc = "menu"
    /\ \E k \in 1..Len(sessions) :
        sessions[k].name = Workspace /\ sessions[k].attached /\ ~sessions[k].is_current
    /\ \E k \in 1..Len(sessions) : sessions[k].is_current /\ ~sessions[k].attached

\* C3: the list to close is exactly the selected sessions that are in the safe
\* list display_session_list returns, in the order of the selection.
C3_ToCloseIsSelectedSafe ==
    CloseFiltered =>
        /\ Elems(to_close) = Selected \cap Elems(SafeSessions(sessions))
        /\ Len(to_close) = Cardinality(Elems(to_close))
        /\ \A i \in 1..Len(to_close) : \A j \in 1..Len(to_close) :
            i < j => \E a \in 1..Len(sessions) : \E b \in 1..Len(sessions) :
                        a < b /\ sessions[a] = to_close[i] /\ sessions[b] = to_close[j]

\* a selection of three sessions of which one was kept and two were left out
C3_Witness ==
    /\ CloseFiltered
    /\ Len(indices.idx) = 3
    /\ Len(to_close) = 1

-----------------------------------------------------------------------------
(* Properties of the selection, checked under SpecParse. *)

\* the Close prompt has been answered
Answered == pc # "close_prompt"

\* the tokens of the selection that was typed, without the whitespace around
\* them
Tokens == LET parts == Split(choice, ",") IN [i \in 1..Len(parts) |-> Strip(parts[i])]

\* a 1-based integer token: decimal digits
Digits(t) == t # <<>> /\ \A i \in 1..Len(t) : t[i] \in DigitChars

RECURSIVE Num(_)
\* the number a digit string writes
Num(t) == IF t = <<>> THEN 0 ELSE 10 * Num(SubSeq(t, 1, Len(t) - 1)) + DigitVal(t[Len(t)])

\* where a token a-b has its dash
DashAt(t) ==
    {k \in 2..(Len(t) - 1) :
        t[k] = "-" /\ Digits(SubSeq(t, 1, k - 1)) /\ Digits(SubSeq(t, k + 1, Len(t)))}

WellFormedTok(t) == Digits(t) \/ DashAt(t) # {}

WellFormedSel == \A i \in 1..Len(Tokens) : WellFormedTok(Tokens[i])

Between(j, a, b) == (a <= j /\ j <= b) \/ (b <= j /\ j <= a)

\* the 1-based positions, of n, that a well-formed token names
NamedBy(t, n) ==
    IF Digits(t) THEN {j \in 1..n : j = Num(t)}
    ELSE UNION {{j \in 1..n : Between(j, Num(SubSeq(t, 1, k - 1)), Num(SubSeq(t, k + 1, Len(t))))} :
                    k \in DashAt(t)}

ExpectedIndices ==
    {i \in 0..(Len(sessions) - 1) : \E k \in 1..Len(Tokens) : i + 1 \in NamedBy(Tokens[k], Len(sessions))}

\* C4: for a well-formed selection and n sessions, the parsed selection is
\* exactly the 0-based indices i < n with i + 1 named by an integer token or
\* between the two ends of a range token, whatever the order of the ends; what
\* is outside 1..n is dropped and the parse does not fail.
C4_ParsedIsNamed ==
    Answered /\ WellFormedSel =>
        /\ indices.ok
        /\ Elems(indices.idx) = ExpectedIndices
        /\ Len(indices.idx) = Cardinality(ExpectedIndices)
        /\ "Invalid input!" \notin Elems(msg)

\* "2,6-4" with five sessions: an integer, a range written backwards, and an
\* end beyond the last session
C4_Witness ==
    /\ Answered
    /\ Len(sessions) = 5
    /\ choice = <<"2", ",", "6", "-", "4">>
    /\ indices = [ok |-> TRUE, idx |-> <<1, 3, 4>>]

\* what int() reads: digits, a sign before them, whitespace around
IntText(t) ==
    LET u == Strip(t)
    IN  Digits(u) \/ (Len(u) > 1 /\ u[1] \in {"+", "-"} /\ Digits(Tail(u)))

\* a range whose two ends are integers
RangeText(t) ==
    \E k \in 1..Len(t) :
        t[k] = "-" /\ IntText(SubSeq(t, 1, k - 1)) /\ IntText(SubSeq(t, k + 1, Len(t)))

Blank(t) == Strip(t) = <<>>

NotQuit == Lower(choice) # <<"q">>

\* the parse failed as a whole: no index kept, nothing to close, nothing killed
ParseFailed ==
    /\ indices = ValueError
    /\ msg = <<"Invalid input!">>
    /\ to_close = <<>>
    /\ cmds = <<>>
    /\ pc = "top"

\* C5, as amended: a selection with a token that is not blank and is neither
\* an integer nor a range of two integers fails as a whole, with a message
\* other than the one of a selection that is empty after filtering; a blank
\* token is skipped and fails nothing.
C5_BadTokenFailsAll ==
    Answered /\ NotQuit =>
        /\ (\E i \in 1..Len(Tokens) :
                ~Blank(Tokens[i]) /\ ~IntText(Tokens[i]) /\ ~RangeText(Tokens[i]))
                => ParseFailed
        /\ (\A i \in 1..Len(Tokens) : Blank(Tokens[i]) \/ WellFormedTok(Tokens[i]))
                => indices.ok /\ "Invalid input!" \notin Elems(msg)
        /\ indices.ok /\ indices.idx = <<>> => msg = <<"Nothing selected.">>

\* "2,a": the index of the token 2 is not kept
C5_Witness ==
    /\ Answered
    /\ choice = <<"2", ",", "a">>
    /\ ParseFailed

\* C5, as stated: any token that is not an integer, nor a range of two
\* integers, fails the parse as a whole.
C5_AnyNonIntegerFails ==
    Answered /\ NotQuit =>
        ((\E i \in 1..Len(Tokens) : ~IntText(Tokens[i]) /\ ~RangeText(Tokens[i]))
            => ParseFailed)

-----------------------------------------------------------------------------
(* Properties of the menu loop, checked under Spec. *)

IssuedOps == {cmds[i].op : i \in 1..Len(cmds)}

\* no kill-session, switch-client or new-session was issued in this menu
\* iteration
NothingDestructive == IssuedOps \cap {"kill-session", "switch-client", "new-session"} = {}

\* the line reads as the 1-based position k
ReadsAs(t, k) ==
    LET u == Strip(t)
    IN  \/ Digits(u) /\ Num(u) = k
        \/ Len(u) > 1 /\ u[1] = "+" /\ Digits(Tail(u)) /\ Num(Tail(u)) = k

NamesSession(t) == \E k \in 1..Len(sessions) : ReadsAs(t, k)

IsSafe(s) == ~s.is_current /\ ~s.attached /\ s.name # Workspace

\* the selection prompt of Close was shown and has been answered with a
\* selection
SelectionGiven ==
    /\ menu = <<"2">>
    /\ \E k \in 1..Len(sessions) : IsSafe(sessions[k])
    /\ pc # "close_prompt"
    /\ NotQuit

BadSyntax ==
    \E i \in 1..Len(Tokens) :
        ~Blank(Tokens[i]) /\ ~IntText(Tokens[i]) /\ ~RangeText(Tokens[i])

PlainSyntax == \A i \in 1..Len(Tokens) : Blank(Tokens[i]) \/ WellFormedTok(Tokens[i])

InvalidSelection == SelectionGiven /\ BadSyntax

EmptySelection == SelectionGiven /\ PlainSyntax /\ ExpectedIndices = {}

NoSafeSelected ==
    /\ SelectionGiven
    /\ PlainSyntax
    /\ ExpectedIndices # {}
    /\ \A i \in ExpectedIndices : ~IsSafe(sessions[i + 1])

\* the prompt of Details or of Switch was answered with a line that names no
\* session
BadIndex ==
    /\ menu \in {<<"1">>, <<"3">>}
    /\ pc \notin {"details_prompt", "switch_prompt"}
    /\ ~NamesSession(choice)

FailureOutcome == InvalidSelection \/ EmptySelection \/ NoSafeSelected \/ BadIndex

\* C6: on every failure outcome of a menu action no kill-session,
\* switch-client or new-session is issued and control is back at the top of
\* the loop of main_menu, from where the loop gets to its prompt again: its
\* next step reads the inventory anew and shows the menu.
C6_FailureReturnsToMenu ==
    /\ [](FailureOutcome =>
            NothingDestructive /\ pc = "top" /\ exc = "none" /\ ReachesPrompt)
    /\ [][FailureOutcome /\ pc' # pc =>
            /\ pc' = "menu"
            /\ raw' = Stdout(tool, ListSessionsText(server))
            /\ cmds' = <<>>]_vars

\* a selection of sessions of which none is safe, in an inventory that has a
\* safe one
C6_Witness == NoSafeSelected /\ pc = "top" /\ Len(to_close) = 0

NumKills == Cardinality({j \in 1..Len(cmds) : cmds[j].op = "kill-session"})

\* 'yes' in any letter case
YesForms == {<<a, b, c>> : a \in {"y", "Y"}, b \in {"e", "E"}, c \in {"s", "S"}}

Reviewed == "Review to close:" \in Elems(msg)

\* C7: kill-session is issued only from the confirmation prompt, after the
\* review list was shown, and by the step in which 'yes' (in any letter case,
\* the line taken as the program reads it, without the whitespace around it)
\* is typed; with any other confirmation, or with 'q' at the selection prompt,
\* no kill-session is issued in the menu iteration.
C7_KillOnlyAfterYes ==
    /\ [](KillTargets # {} => Reviewed /\ confirm \in YesForms)
    /\ [](confirm \notin YesForms => KillTargets = {})
    /\ [](menu = <<"2">> /\ pc # "close_prompt" /\ ~NotQuit => KillTargets = {})
    /\ [][NumKills' > NumKills =>
            pc = "close_confirm" /\ Reviewed /\ confirm' \in YesForms]_vars

\* sessions were killed after ' Yes ' was typed
C7_Witness ==
    /\ pc = "top"
    /\ KillTargets # {}
    /\ confirm = <<"Y", "e", "s">>

\* C8, as stated: while the tmux binary is unreachable or answers with an
\* error, no exception escapes main_menu.
C8_ToolFailureNeverCrashes == tool # "ok" => pc # "crashed" /\ exc = "none"

-----------------------------------------------------------------------------
(* Properties of the collector, checked under SpecCollect. *)

\* the lines of an output of tmux, as the program receives it
LinesOf(out) == Split(Strip(out), NL)

FieldsOf(line) == Split(line, ":")

\* the lines that have at least k fields and digits as their fourth field
NumericLines(out, k) ==
    SelectSeq(LinesOf(out), LAMBDA l : Len(FieldsOf(l)) >= k /\ Digits(FieldsOf(l)[4]))

FirstFields(lines) == [i \in 1..Len(lines) |-> FieldsOf(lines[i])[1]]

Ids(records) == [i \in 1..Len(records) |-> records[i].id]

\* C9, as stated: a line of list-sessions or of list-windows whose count is
\* not a number is skipped as a line with too few fields is: no error is
\* raised, and the records are those of the other lines.
C9_NonNumericSkipped ==
    /\ pc = "refreshed" /\ tool = "ok" =>
            exc = "none" /\ Ids(sessions) = FirstFields(NumericLines(raw, 5))
    /\ pc = "listed" /\ tool = "ok" =>
            exc = "none" /\ Ids(windows.list) = FirstFields(NumericLines(windows_raw, 4))

-----------------------------------------------------------------------------
(* Properties of the summary, checked under SpecSummary. *)

\* the command names of each category
Known ==
    [shell |-> Shells, editor |-> Editors, claude |-> {Claude}, python |-> Pythons,
     node |-> Nodes, browser |-> Browsers, files |-> {Ranger}, monitor |-> Monitors,
     docker |-> {Docker}]

AllKnown == UNION {Known[c] : c \in DOMAIN Known}

\* the command of every pane of the two windows: what follows the third colon
\* of a line of four fields
CommandsSeen ==
    LET lines == [i \in 1..Len(pane_table) |-> pane_table[i][2]]
        full == SelectSeq(lines, LAMBDA l : Len(SplitMax(l, ":", 3)) >= 4)
    IN  [i \in 1..Len(full) |-> SplitMax(full[i], ":", 3)[4]]

\* how many of the commands cs are in S
HowMany(cs, S) == Cardinality({i \in 1..Len(cs) : cs[i] \in S})

Summarized == pc = "summarized" /\ windows_raw = TwoWindows

\* each known name is in one category
OneCategory ==
    \A c \in DOMAIN Known : \A d \in DOMAIN Known : c # d => Known[c] \cap Known[d] = {}

\* app_counts, but for 'other': each known name counts for its one category
KnownCounted(cs) ==
    /\ \A c \in DOMAIN Known : Get(summary.app_counts, c) = HowMany(cs, Known[c])
    /\ DOMAIN summary.app_counts \subseteq DOMAIN Known \cup {"other"}
    /\ \A k \in DOMAIN summary.app_counts : summary.app_counts[k] > 0

\* C10, as amended: each known command name counts for its one category; an
\* unmatched name counts as 'other', and a name is in unique_apps, when it is
\* not empty and not of whitespace only; total_panes counts every pane, those
\* with an empty command name too.
C10_FixedLookup ==
    Summarized =>
        LET cs == CommandsSeen
        IN  /\ OneCategory
            /\ KnownCounted(cs)
            /\ Get(summary.app_counts, "other")
                    = HowMany(cs, {c \in Elems(cs) : c \notin AllKnown /\ Strip(c) # <<>>})
            /\ summary.unique_apps = {c \in Elems(cs) : Strip(c) # <<>>}
            /\ summary.total_panes = Len(cs)

\* a pane that runs vim and a pane with an empty command name: two panes, one
\* of them counted as an editor
C10_Witness ==
    /\ Summarized
    /\ Elems(CommandsSeen) = {<<"v", "i", "m">>, <<>>}
    /\ summary.total_panes = 2
    /\ summary.app_counts = [x \in {"editor"} |-> 1]
    /\ summary.unique_apps = {<<"v", "i", "m">>}

\* C10, as stated: an unmatched name that is not empty counts as 'other', and
\* a pane with an empty command name is in no count, total_panes included.
C10_EmptyInNoCount ==
    Summarized =>
        LET cs == CommandsSeen
        IN  /\ OneCategory
            /\ KnownCounted(cs)
            /\ Get(summary.app_counts, "other")
                    = HowMany(cs, {c \in Elems(cs) : c \notin AllKnown /\ c # <<>>})
            /\ summary.unique_apps = {c \in Elems(cs) : c # <<>>}
            /\ summary.total_panes = HowMany(cs, {c \in Elems(cs) : c # <<>>})

-----------------------------------------------------------------------------
(* Properties of create_four_pane_session and start_missing_sessions, checked *)
(* under Spec.                                                                *)

\* the seven commands of a four-pane session: the command, its option, and
\* what follows the session name in its target
SevenSteps ==
    <<<<"new-session", "Multi-View", <<>>>>,
      <<"split-window", "-h", <<":", "0">>>>,
      <<"split-window", "-v", <<":", "0", ".", "0">>>>,
      <<"split-window", "-v", <<":", "0", ".", "1">>>>,
      <<"select-layout", "tiled", <<":", "0">>>>,
      <<"send-keys", "claude", <<":", "0", ".", "0">>>>,
      <<"send-keys", "ranger", <<":", "0", ".", "1">>>>>>

\* the seven commands are at k+1 .. k+7 of cmds, in order, for one session name
SevenAt(k) ==
    /\ k + Len(SevenSteps) <= Len(cmds)
    /\ \A i \in 1..Len(SevenSteps) :
        /\ cmds[k + i].op = SevenSteps[i][1]
        /\ cmds[k + i].opt = SevenSteps[i][2]
        /\ cmds[k + i].target = cmds[k + 1].target \o SevenSteps[i][3]

\* the directories Start Missing has to make a session for: those whose
\* basename is not the name of a session of the snapshot
ToCreate == SelectSeq(dirs, LAMBDA p : \A i \in 1..Len(sessions) : sessions[i].name # Basename(p))

\* Start Missing was chosen and has run
StartedMissing == menu = <<"5">>

\* C11, as stated: each call of create_four_pane_session issues the seven
\* commands, in order, all of them whatever became of the earlier ones; Start
\* Missing calls it once for each directory it has to make a session for.
C11_SevenCommandsAlways ==
    StartedMissing =>
        /\ Len(cmds) = Len(SevenSteps) * Len(ToCreate)
        /\ \A j \in 1..Len(ToCreate) :
            /\ SevenAt(Len(SevenSteps) * (j - 1))
            /\ cmds[Len(SevenSteps) * (j - 1) + 1].target = Basename(ToCreate[j])

\* where cmds has a new-session
NewSessionAt == {j \in 1..Len(cmds) : cmds[j].op = "new-session"}

\* C12, as stated: in one run of start_missing_sessions no new-session is
\* issued for a name of the snapshot, nor for a name that an earlier
\* new-session of the same run has created (tmux answering, the earlier one
\* did create it).
C12_NoNewSessionForExistingName ==
    StartedMissing =>
        /\ \A j \in NewSessionAt :
            \A i \in 1..Len(sessions) : sessions[i].name # cmds[j].target
        /\ tool = "ok" =>
            \A i \in NewSessionAt : \A j \in NewSessionAt :
                i < j => cmds[i].target # cmds[j].target

====
